---------------------------- MODULE Spec2Model ----------------------------
(***************************************************************************)
(* A model of libdivecomputer's Windows serial backend                     *)
(* (src/src/serial_win32.c): the serial session (open, configure,          *)
(* timeouts, read, write, line control, close) and the port enumerator.    *)
(*                                                                         *)
(* The operating system is the environment.  Every Win32 call the code     *)
(* makes either succeeds or fails with a native error code; which of the   *)
(* two happens is a nondeterministic input of the action that models the   *)
(* handler.  The serial port keeps its settings (DCB and COMMTIMEOUTS) on  *)
(* the OS side, in the variable port; the session keeps what the code      *)
(* stores in dc_serial_t, in the variable device.                          *)
(***************************************************************************)
EXTENDS Integers, Sequences, FiniteSets, TLC

VARIABLES
    port,       \* the OS side of the serial port: [dcb, timeouts]
    device,     \* the dc_serial_t of the open session, or NULL
    handles,    \* number of OS handles the process holds on the port
    out,        \* the caller's dc_iostream_t* variable: "NULL" or "device"
    sessions,   \* number of successful opens so far
    opened,     \* history: the port's settings when the session was opened
    timeoutSet, \* history: the last set_timeout of the session that succeeded
    last,       \* observation: the last call, its arguments and its results
    registry    \* the registry key SERIALCOMM as the last enumeration saw it

vars == <<port, device, handles, out, sessions, opened, timeoutSet, last,
          registry>>

\* The null pointer: a record, so that it compares with the records it stands for.
NULL == [null |-> TRUE]

(***************************************************************************)
(* Bounds of the model.                                                    *)
(***************************************************************************)
\* Successful opens in one behaviour.
MaxSessions == 2
\* Largest byte count a read or a write asks for.
MaxSize == 2
\* Largest number of values under the registry key.
MaxEntries == 4

(***************************************************************************)
(* Status codes and the native error codes of the OS.                      *)
(***************************************************************************)
OK == "OK"

\* The native error codes drawn for a failing OS call: the four codes
\* syserror names and one it does not (ERROR_GEN_FAILURE).
ErrCodes == {"ERROR_INVALID_PARAMETER", "ERROR_OUTOFMEMORY",
             "ERROR_FILE_NOT_FOUND", "ERROR_ACCESS_DENIED",
             "ERROR_GEN_FAILURE"}

\* A smaller choice for the calls whose error code is only passed through.
FewErrCodes == {"ERROR_INVALID_PARAMETER", "ERROR_GEN_FAILURE"}

syserror(errcode) ==
    CASE errcode = "ERROR_INVALID_PARAMETER" -> "DC_STATUS_INVALIDARGS"
      [] errcode = "ERROR_OUTOFMEMORY"       -> "DC_STATUS_NOMEMORY"
      [] errcode = "ERROR_FILE_NOT_FOUND"    -> "DC_STATUS_NODEVICE"
      [] errcode = "ERROR_ACCESS_DENIED"     -> "DC_STATUS_NOACCESS"
      [] OTHER                               -> "DC_STATUS_IO"

\* common-private.h: the first error is kept.
dc_status_set_error(status, error) ==
    IF status = "DC_STATUS_SUCCESS" THEN error ELSE status

(***************************************************************************)
(* The settings of the port.                                               *)
(***************************************************************************)
\* ReadIntervalTimeout of the non-blocking mode: the all-ones DWORD, written
\* as -1 ((DWORD) -1) because the checker's integers are 32 bits wide.
MAXDWORD == -1

\* The settings a port may have before the library touches it.
InitialPorts ==
    { [dcb |-> [BaudRate |-> 1200, ByteSize |-> 7, Parity |-> "EVENPARITY",
                fParity |-> TRUE, StopBits |-> "ONESTOPBIT",
                fBinary |-> TRUE, fAbortOnError |-> TRUE,
                fInX |-> TRUE, fOutX |-> TRUE,
                fOutxCtsFlow |-> FALSE, fOutxDsrFlow |-> FALSE,
                fDtrControl |-> "DTR_CONTROL_DISABLE",
                fRtsControl |-> "RTS_CONTROL_DISABLE"],
       timeouts |-> [ReadIntervalTimeout |-> 10,
                     ReadTotalTimeoutMultiplier |-> 2,
                     ReadTotalTimeoutConstant |-> 100,
                     WriteTotalTimeoutMultiplier |-> 3,
                     WriteTotalTimeoutConstant |-> 50]],
      [dcb |-> [BaudRate |-> 19200, ByteSize |-> 8, Parity |-> "NOPARITY",
                fParity |-> FALSE, StopBits |-> "TWOSTOPBITS",
                fBinary |-> TRUE, fAbortOnError |-> FALSE,
                fInX |-> FALSE, fOutX |-> FALSE,
                fOutxCtsFlow |-> TRUE, fOutxDsrFlow |-> FALSE,
                fDtrControl |-> "DTR_CONTROL_ENABLE",
                fRtsControl |-> "RTS_CONTROL_HANDSHAKE"],
       timeouts |-> [ReadIntervalTimeout |-> 0,
                     ReadTotalTimeoutMultiplier |-> 0,
                     ReadTotalTimeoutConstant |-> 0,
                     WriteTotalTimeoutMultiplier |-> 0,
                     WriteTotalTimeoutConstant |-> 0]] }

\* One OS call in the order the handler made it: its name, the value it
\* handed to the OS (or NULL) and its outcome (OK or the native error code).
Call(fn, val, rc) == [fn |-> fn, val |-> val, rc |-> rc]

NoCall == [op |-> "none"]

NoTimeoutSet == [set |-> FALSE]

(***************************************************************************)
(* dc_serial_open                                                          *)
(***************************************************************************)
MAX_PATH == 260

\* The names a caller passes: NULL, or a name of len characters that does
\* or does not begin with the device prefix \\.\ .
Names == {NULL} \cup
         { [prefixed |-> FALSE, len |-> n] : n \in {4, 255, 256} } \cup
         { [prefixed |-> TRUE, len |-> n] : n \in {8, 300} }

\* An open that reports every failed query of the port as an absent device.
dc_serial_open_reports_nodevice(outp, name, alloc, create, getState, getTimeouts, p) ==
    LET none == [status |-> "", device |-> NULL, handles |-> 0,
                 out |-> FALSE, calls |-> <<>>]
    IN
    IF ~outp \/ name = NULL
    THEN [none EXCEPT !.status = "DC_STATUS_INVALIDARGS"]
    ELSE IF ~name.prefixed /\ (name.len + 1) + 4 > MAX_PATH
    THEN [none EXCEPT !.status = "DC_STATUS_NOMEMORY"]
    ELSE IF ~alloc
    THEN [none EXCEPT !.status = "DC_STATUS_NOMEMORY",
                      !.calls = <<Call("dc_iostream_allocate", NULL, "ERROR_OUTOFMEMORY")>>]
    ELSE
    LET c0 == <<Call("dc_iostream_allocate", NULL, OK)>>
        c1 == Append(c0, Call("CreateFileA", NULL, create))
    IN
    IF create # OK
    THEN [none EXCEPT !.status = syserror(create),
            !.calls = Append(c1, Call("dc_iostream_deallocate", NULL, OK))]
    ELSE
    LET c2 == Append(c1, Call("GetCommState", NULL, getState))
        c3 == IF getState = OK
              THEN Append(c2, Call("GetCommTimeouts", NULL, getTimeouts))
              ELSE c2
    IN
    IF getState # OK \/ getTimeouts # OK
    THEN [none EXCEPT !.status = "DC_STATUS_NODEVICE",
            !.calls = c3 \o <<Call("CloseHandle", NULL, OK),
                              Call("dc_iostream_deallocate", NULL, OK)>>]
    ELSE [status  |-> "DC_STATUS_SUCCESS",
          device  |-> [dcb |-> p.dcb, timeouts |-> p.timeouts,
                       halfduplex |-> 0, baudrate |-> 0, nbits |-> 0],
          handles |-> 1,
          out     |-> TRUE,
          calls   |-> c3]

\* An open that frees the session but keeps the handle when a query of the
\* port fails.
dc_serial_open_leaks_handle(outp, name, alloc, create, getState, getTimeouts, p) ==
    LET none == [status |-> "", device |-> NULL, handles |-> 0,
                 out |-> FALSE, calls |-> <<>>]
    IN
    IF ~outp \/ name = NULL
    THEN [none EXCEPT !.status = "DC_STATUS_INVALIDARGS"]
    ELSE IF ~name.prefixed /\ (name.len + 1) + 4 > MAX_PATH
    THEN [none EXCEPT !.status = "DC_STATUS_NOMEMORY"]
    ELSE IF ~alloc
    THEN [none EXCEPT !.status = "DC_STATUS_NOMEMORY",
                      !.calls = <<Call("dc_iostream_allocate", NULL, "ERROR_OUTOFMEMORY")>>]
    ELSE
    LET c0 == <<Call("dc_iostream_allocate", NULL, OK)>>
        c1 == Append(c0, Call("CreateFileA", NULL, create))
    IN
    IF create # OK
    THEN [none EXCEPT !.status = syserror(create),
            !.calls = Append(c1, Call("dc_iostream_deallocate", NULL, OK))]
    ELSE
    LET c2 == Append(c1, Call("GetCommState", NULL, getState))
        c3 == IF getState = OK
              THEN Append(c2, Call("GetCommTimeouts", NULL, getTimeouts))
              ELSE c2
        errcode == IF getState # OK THEN getState ELSE getTimeouts
    IN
    IF getState # OK \/ getTimeouts # OK
    THEN [none EXCEPT !.status = syserror(errcode),
            !.handles = 1,
            !.calls = Append(c3, Call("dc_iostream_deallocate", NULL, OK))]
    ELSE [status  |-> "DC_STATUS_SUCCESS",
          device  |-> [dcb |-> p.dcb, timeouts |-> p.timeouts,
                       halfduplex |-> 0, baudrate |-> 0, nbits |-> 0],
          handles |-> 1,
          out     |-> TRUE,
          calls   |-> c3]

\* The outcome of open for the arguments (outp is FALSE for out == NULL) and
\* for the outcomes of the allocation and of the three OS calls.
dc_serial_open(outp, name, alloc, create, getState, getTimeouts, p) ==
    LET none == [status |-> "", device |-> NULL, handles |-> 0,
                 out |-> FALSE, calls |-> <<>>]
    IN
    IF ~outp \/ name = NULL
    THEN [none EXCEPT !.status = "DC_STATUS_INVALIDARGS"]
    ELSE IF ~name.prefixed /\ (name.len + 1) + 4 > MAX_PATH
    THEN [none EXCEPT !.status = "DC_STATUS_NOMEMORY"]
    ELSE IF ~alloc
    THEN [none EXCEPT !.status = "DC_STATUS_NOMEMORY",
                      !.calls = <<Call("dc_iostream_allocate", NULL, "ERROR_OUTOFMEMORY")>>]
    ELSE
    LET c0 == <<Call("dc_iostream_allocate", NULL, OK)>>
        c1 == Append(c0, Call("CreateFileA", NULL, create))
    IN
    IF create # OK
    THEN [none EXCEPT !.status = syserror(create),
            !.calls = Append(c1, Call("dc_iostream_deallocate", NULL, OK))]
    ELSE
    LET c2 == Append(c1, Call("GetCommState", NULL, getState))
        c3 == IF getState = OK
              THEN Append(c2, Call("GetCommTimeouts", NULL, getTimeouts))
              ELSE c2
        errcode == IF getState # OK THEN getState ELSE getTimeouts
    IN
    IF getState # OK \/ getTimeouts # OK
    THEN [none EXCEPT !.status = syserror(errcode),
            !.calls = c3 \o <<Call("CloseHandle", NULL, OK),
                              Call("dc_iostream_deallocate", NULL, OK)>>]
    ELSE [status  |-> "DC_STATUS_SUCCESS",
          device  |-> [dcb |-> p.dcb, timeouts |-> p.timeouts,
                       halfduplex |-> 0, baudrate |-> 0, nbits |-> 0],
          handles |-> 1,
          out     |-> TRUE,
          calls   |-> c3]

\* An open call.  The outcome of a call is drawn only when the call is made.
Open ==
    /\ device = NULL
    /\ sessions < MaxSessions
    /\ \E outp \in BOOLEAN, name \in Names :
       \E alloc \in IF outp /\ name # NULL
                        /\ (name.prefixed \/ (name.len + 1) + 4 <= MAX_PATH)
                     THEN BOOLEAN ELSE {TRUE} :
       \E create \in IF outp /\ name # NULL /\ alloc THEN {OK} \cup ErrCodes
                      ELSE {OK} :
       \E getState \in IF outp /\ name # NULL /\ alloc /\ create = OK
                        THEN {OK} \cup ErrCodes ELSE {OK} :
       \E getTimeouts \in IF outp /\ name # NULL /\ alloc /\ create = OK
                              /\ getState = OK
                           THEN {OK} \cup ErrCodes ELSE {OK} :
       \E r \in {dc_serial_open(outp, name, alloc, create, getState,
                                getTimeouts, port)} :
            /\ device' = r.device
            /\ handles' = r.handles
            /\ out' = IF r.out THEN "device" ELSE out
            /\ sessions' = IF r.status = "DC_STATUS_SUCCESS"
                           THEN sessions + 1 ELSE sessions
            /\ opened' = IF r.status = "DC_STATUS_SUCCESS" THEN port ELSE opened
            /\ last' = [op |-> "open", status |-> r.status, calls |-> r.calls]
    /\ timeoutSet' = NoTimeoutSet
    /\ UNCHANGED <<port, registry>>

(***************************************************************************)
(* dc_serial_close                                                         *)
(***************************************************************************)
\* A close that returns as soon as the restore fails.
dc_serial_close_returns_early(dev, p, setState, setTimeouts, closeHandle) ==
    LET c1 == <<Call("SetCommState", dev.dcb, setState)>>
        c2 == IF setState = OK
              THEN Append(c1, Call("SetCommTimeouts", dev.timeouts, setTimeouts))
              ELSE c1
        restored == setState = OK /\ setTimeouts = OK
        errcode == IF setState # OK THEN setState ELSE setTimeouts
    IN
    IF ~restored
    THEN [status |-> syserror(errcode),
          port   |-> [dcb |-> IF setState = OK THEN dev.dcb ELSE p.dcb,
                      timeouts |-> p.timeouts],
          calls  |-> c2]
    ELSE [status |-> IF closeHandle = OK THEN "DC_STATUS_SUCCESS"
                     ELSE syserror(closeHandle),
          port   |-> [dcb |-> dev.dcb, timeouts |-> dev.timeouts],
          calls  |-> Append(c2, Call("CloseHandle", NULL, closeHandle))]

\* A close that returns the last error it met instead of the first.
dc_serial_close_last_error(dev, p, setState, setTimeouts, closeHandle) ==
    LET c1 == <<Call("SetCommState", dev.dcb, setState)>>
        c2 == IF setState = OK
              THEN Append(c1, Call("SetCommTimeouts", dev.timeouts, setTimeouts))
              ELSE c1
        restored == setState = OK /\ setTimeouts = OK
        errcode == IF setState # OK THEN setState ELSE setTimeouts
        s1 == IF restored THEN "DC_STATUS_SUCCESS" ELSE syserror(errcode)
        s2 == IF closeHandle = OK THEN s1 ELSE syserror(closeHandle)
    IN [status |-> s2,
        port   |-> [dcb |-> IF setState = OK THEN dev.dcb ELSE p.dcb,
                    timeouts |-> IF restored THEN dev.timeouts ELSE p.timeouts],
        calls  |-> Append(c2, Call("CloseHandle", NULL, closeHandle))]

\* The outcome of close on session dev of port p, for the outcomes of the
\* three OS calls: the status, the port afterwards and the calls made.
dc_serial_close(dev, p, setState, setTimeouts, closeHandle) ==
    LET c1 == <<Call("SetCommState", dev.dcb, setState)>>
        c2 == IF setState = OK
              THEN Append(c1, Call("SetCommTimeouts", dev.timeouts, setTimeouts))
              ELSE c1
        restored == setState = OK /\ setTimeouts = OK
        errcode == IF setState # OK THEN setState ELSE setTimeouts
        s1 == IF restored THEN "DC_STATUS_SUCCESS"
              ELSE dc_status_set_error("DC_STATUS_SUCCESS", syserror(errcode))
        s2 == IF closeHandle = OK THEN s1
              ELSE dc_status_set_error(s1, syserror(closeHandle))
    IN [status |-> s2,
        port   |-> [dcb |-> IF setState = OK THEN dev.dcb ELSE p.dcb,
                    timeouts |-> IF restored THEN dev.timeouts ELSE p.timeouts],
        calls  |-> Append(c2, Call("CloseHandle", NULL, closeHandle))]

Close ==
    /\ device # NULL
    /\ \E setState \in {OK} \cup ErrCodes,
          closeHandle \in {OK} \cup ErrCodes :
       \E setTimeouts \in IF setState = OK THEN {OK} \cup ErrCodes ELSE {OK} :
       \E r \in {dc_serial_close(device, port, setState, setTimeouts,
                                 closeHandle)} :
            /\ port' = r.port
            /\ last' = [op |-> "close", status |-> r.status, calls |-> r.calls]
    \* The session is deallocated by the caller of the handler, and the
    \* handle is gone whatever CloseHandle answers.
    /\ device' = NULL
    /\ handles' = 0
    /\ UNCHANGED <<out, sessions, opened, timeoutSet, registry>>

(***************************************************************************)
(* dc_serial_configure                                                     *)
(***************************************************************************)
Parities  == {"DC_PARITY_NONE", "DC_PARITY_ODD", "DC_PARITY_EVEN",
              "DC_PARITY_MARK", "DC_PARITY_SPACE"}
StopBits  == {"DC_STOPBITS_ONE", "DC_STOPBITS_ONEPOINTFIVE", "DC_STOPBITS_TWO"}
FlowCtrls == {"DC_FLOWCONTROL_NONE", "DC_FLOWCONTROL_HARDWARE",
              "DC_FLOWCONTROL_SOFTWARE"}
\* A value of the enumeration's type that is none of its enumerators.
BadEnum   == "OUT_OF_RANGE"

\* The integer an enumerator of dc_parity_t stands for (common.h declares
\* DC_PARITY_NONE first, so it is 0 and every other value is not).
dc_parity_t(parity) ==
    CASE parity = "DC_PARITY_NONE"  -> 0
      [] parity = "DC_PARITY_ODD"   -> 1
      [] parity = "DC_PARITY_EVEN"  -> 2
      [] parity = "DC_PARITY_MARK"  -> 3
      [] parity = "DC_PARITY_SPACE" -> 4
      [] OTHER                      -> 5

\* The integer an enumerator of dc_stopbits_t stands for (common.h declares
\* them in the order one, one and a half, two).
dc_stopbits_t(stopbits) ==
    CASE stopbits = "DC_STOPBITS_ONE"          -> 0
      [] stopbits = "DC_STOPBITS_ONEPOINTFIVE" -> 1
      [] stopbits = "DC_STOPBITS_TWO"          -> 2
      [] OTHER                                 -> 3

\* The bit-time count configure records.
nbits(databits, parity, stopbits) ==
    1 + databits + dc_stopbits_t(stopbits)
      + (IF dc_parity_t(parity) # 0 THEN 1 ELSE 0)

\* The DCB configure hands to SetCommState, built on the DCB GetCommState
\* returned; INVALID when an argument is refused.
INVALID == [invalid |-> TRUE]

NewDcb(dcb, baudrate, databits, parity, stopbits, flowcontrol) ==
    LET d1 == [dcb EXCEPT !.fBinary = TRUE, !.fAbortOnError = FALSE,
                          !.BaudRate = baudrate]
    IN
    IF ~(databits >= 5 /\ databits <= 8) THEN INVALID
    ELSE IF parity \notin Parities THEN INVALID
    ELSE IF stopbits \notin StopBits THEN INVALID
    ELSE IF flowcontrol \notin FlowCtrls THEN INVALID
    ELSE
    LET d2 == [d1 EXCEPT
                !.ByteSize = databits,
                !.Parity = CASE parity = "DC_PARITY_NONE"  -> "NOPARITY"
                             [] parity = "DC_PARITY_EVEN"  -> "EVENPARITY"
                             [] parity = "DC_PARITY_ODD"   -> "ODDPARITY"
                             [] parity = "DC_PARITY_MARK"  -> "MARKPARITY"
                             [] parity = "DC_PARITY_SPACE" -> "SPACEPARITY",
                !.fParity = (parity # "DC_PARITY_NONE"),
                !.StopBits = CASE stopbits = "DC_STOPBITS_ONE" -> "ONESTOPBIT"
                               [] stopbits = "DC_STOPBITS_ONEPOINTFIVE" -> "ONE5STOPBITS"
                               [] stopbits = "DC_STOPBITS_TWO" -> "TWOSTOPBITS"]
    IN
    CASE flowcontrol = "DC_FLOWCONTROL_NONE" ->
            [d2 EXCEPT !.fInX = FALSE, !.fOutX = FALSE,
                       !.fOutxCtsFlow = FALSE, !.fOutxDsrFlow = FALSE,
                       !.fDtrControl = "DTR_CONTROL_ENABLE",
                       !.fRtsControl = "RTS_CONTROL_ENABLE"]
      [] flowcontrol = "DC_FLOWCONTROL_HARDWARE" ->
            [d2 EXCEPT !.fInX = FALSE, !.fOutX = FALSE,
                       !.fOutxCtsFlow = TRUE, !.fOutxDsrFlow = TRUE,
                       !.fDtrControl = "DTR_CONTROL_HANDSHAKE",
                       !.fRtsControl = "RTS_CONTROL_HANDSHAKE"]
      [] flowcontrol = "DC_FLOWCONTROL_SOFTWARE" ->
            [d2 EXCEPT !.fInX = TRUE, !.fOutX = TRUE,
                       !.fOutxCtsFlow = FALSE, !.fOutxDsrFlow = FALSE,
                       !.fDtrControl = "DTR_CONTROL_ENABLE",
                       !.fRtsControl = "RTS_CONTROL_ENABLE"]

\* A configure that reads the current settings into the session's saved DCB.
dc_serial_configure_into_saved(dev, p, a, getState, setState) ==
    LET dcb == NewDcb(p.dcb, a.baudrate, a.databits, a.parity, a.stopbits,
                      a.flowcontrol)
    IN
    IF getState # OK
    THEN [status |-> syserror(getState), device |-> dev, port |-> p]
    ELSE IF dcb = INVALID
    THEN [status |-> "DC_STATUS_INVALIDARGS", device |-> dev, port |-> p]
    ELSE IF setState # OK
    THEN [status |-> syserror(setState), device |-> dev, port |-> p]
    ELSE [status |-> "DC_STATUS_SUCCESS",
          device |-> [dev EXCEPT !.dcb = dcb, !.baudrate = a.baudrate,
                         !.nbits = nbits(a.databits, a.parity, a.stopbits)],
          port   |-> [p EXCEPT !.dcb = dcb]]

\* A configure that records the baud rate before it looks at the data bits.
dc_serial_configure_records_first(dev, p, a, getState, setState) ==
    LET dcb == NewDcb(p.dcb, a.baudrate, a.databits, a.parity, a.stopbits,
                      a.flowcontrol)
        d1  == [dev EXCEPT !.baudrate = a.baudrate]
    IN
    IF getState # OK
    THEN [status |-> syserror(getState), device |-> dev, port |-> p]
    ELSE IF dcb = INVALID
    THEN [status |-> "DC_STATUS_INVALIDARGS", device |-> d1, port |-> p]
    ELSE IF setState # OK
    THEN [status |-> syserror(setState), device |-> d1, port |-> p]
    ELSE [status |-> "DC_STATUS_SUCCESS",
          device |-> [d1 EXCEPT
                         !.nbits = nbits(a.databits, a.parity, a.stopbits)],
          port   |-> [p EXCEPT !.dcb = dcb]]

\* A configure that records the baud rate and the bit-time count although
\* the OS refused the settings.
dc_serial_configure_records_on_failure(dev, p, a, getState, setState) ==
    LET dcb == NewDcb(p.dcb, a.baudrate, a.databits, a.parity, a.stopbits,
                      a.flowcontrol)
        d1  == [dev EXCEPT !.baudrate = a.baudrate,
                           !.nbits = nbits(a.databits, a.parity, a.stopbits)]
    IN
    IF getState # OK
    THEN [status |-> syserror(getState), device |-> dev, port |-> p]
    ELSE IF dcb = INVALID
    THEN [status |-> "DC_STATUS_INVALIDARGS", device |-> dev, port |-> p]
    ELSE IF setState # OK
    THEN [status |-> syserror(setState), device |-> d1, port |-> p]
    ELSE [status |-> "DC_STATUS_SUCCESS", device |-> d1,
          port   |-> [p EXCEPT !.dcb = dcb]]

\* The outcome of configure on session dev of port p for arguments a and the
\* outcomes of GetCommState and SetCommState: the status, the session and the
\* port afterwards.
dc_serial_configure(dev, p, a, getState, setState) ==
    LET dcb == NewDcb(p.dcb, a.baudrate, a.databits, a.parity, a.stopbits,
                      a.flowcontrol)
    IN
    IF getState # OK
    THEN [status |-> syserror(getState), device |-> dev, port |-> p]
    ELSE IF dcb = INVALID
    THEN [status |-> "DC_STATUS_INVALIDARGS", device |-> dev, port |-> p]
    ELSE IF setState # OK
    THEN [status |-> syserror(setState), device |-> dev, port |-> p]
    ELSE [status |-> "DC_STATUS_SUCCESS",
          device |-> [dev EXCEPT !.baudrate = a.baudrate,
                         !.nbits = nbits(a.databits, a.parity, a.stopbits)],
          port   |-> [p EXCEPT !.dcb = dcb]]

\* The arguments configure accepts.
ValidArgs(a) ==
    /\ a.databits >= 5 /\ a.databits <= 8
    /\ a.parity \in Parities
    /\ a.stopbits \in StopBits
    /\ a.flowcontrol \in FlowCtrls

ConfigArgs(bauds, databits, parities, stopbits, flowctrls) ==
    [baudrate : bauds, databits : databits, parity : parities,
     stopbits : stopbits, flowcontrol : flowctrls]

\* Every combination of the arguments, the refused values included.
AllConfigs ==
    ConfigArgs({9600}, 4..9, Parities \cup {BadEnum}, StopBits \cup {BadEnum},
               FlowCtrls \cup {BadEnum})

\* The configurations a session of the full model asks for: two that are
\* accepted (the second with a baud rate of zero) and two that are refused.
SessionConfigs ==
    { [baudrate |-> 9600, databits |-> 8, parity |-> "DC_PARITY_NONE",
       stopbits |-> "DC_STOPBITS_ONE", flowcontrol |-> "DC_FLOWCONTROL_NONE"],
      [baudrate |-> 0, databits |-> 5, parity |-> "DC_PARITY_MARK",
       stopbits |-> "DC_STOPBITS_ONEPOINTFIVE",
       flowcontrol |-> "DC_FLOWCONTROL_SOFTWARE"],
      [baudrate |-> 9600, databits |-> 9, parity |-> "DC_PARITY_ODD",
       stopbits |-> "DC_STOPBITS_ONE", flowcontrol |-> "DC_FLOWCONTROL_NONE"],
      [baudrate |-> 9600, databits |-> 8, parity |-> BadEnum,
       stopbits |-> "DC_STOPBITS_ONE", flowcontrol |-> "DC_FLOWCONTROL_NONE"] }

\* The configurations of the sessions that read and write: bit-time counts
\* of 8, 9 and 11 at two baud rates, a baud rate of zero, and a refused one.
TransferConfigs ==
    { [baudrate |-> 9600, databits |-> 8, parity |-> "DC_PARITY_NONE",
       stopbits |-> "DC_STOPBITS_ONE", flowcontrol |-> "DC_FLOWCONTROL_NONE"],
      [baudrate |-> 9600, databits |-> 7, parity |-> "DC_PARITY_NONE",
       stopbits |-> "DC_STOPBITS_ONE", flowcontrol |-> "DC_FLOWCONTROL_NONE"],
      [baudrate |-> 19200, databits |-> 7, parity |-> "DC_PARITY_EVEN",
       stopbits |-> "DC_STOPBITS_TWO", flowcontrol |-> "DC_FLOWCONTROL_HARDWARE"],
      [baudrate |-> 0, databits |-> 8, parity |-> "DC_PARITY_NONE",
       stopbits |-> "DC_STOPBITS_ONE", flowcontrol |-> "DC_FLOWCONTROL_NONE"],
      [baudrate |-> 9600, databits |-> 9, parity |-> "DC_PARITY_ODD",
       stopbits |-> "DC_STOPBITS_ONE", flowcontrol |-> "DC_FLOWCONTROL_NONE"] }

\* A configure call with arguments drawn from args.  The outcome of
\* SetCommState is drawn only when the call is made.
ConfigureFrom(args) ==
    /\ device # NULL
    /\ \E a \in args, getState \in {OK} \cup FewErrCodes :
       \E setState \in
            IF getState = OK /\ ValidArgs(a)
            THEN {OK} \cup FewErrCodes ELSE {OK} :
       \E r \in {dc_serial_configure(device, port, a, getState, setState)} :
            /\ device' = r.device
            /\ port' = r.port
            /\ last' = [op |-> "configure", status |-> r.status,
                        databits |-> a.databits, getState |-> getState,
                        applied |-> IF r.status = "DC_STATUS_SUCCESS"
                                    THEN a ELSE NULL]
    /\ UNCHANGED <<handles, out, sessions, opened, timeoutSet, registry>>

Configure == ConfigureFrom(SessionConfigs)

ConfigureAny == ConfigureFrom(AllConfigs)

ConfigureTransfer == ConfigureFrom(TransferConfigs)

(***************************************************************************)
(* dc_serial_set_timeout, dc_serial_set_halfduplex, dc_serial_set_latency  *)
(***************************************************************************)
\* Timeouts whose blocking mode leaves the read deadline as it was.
NewTimeouts_keeps_deadline(timeouts, timeout) ==
    IF timeout < 0
    THEN [timeouts EXCEPT !.ReadIntervalTimeout = 0,
                          !.ReadTotalTimeoutMultiplier = 0,
                          !.WriteTotalTimeoutMultiplier = 0,
                          !.WriteTotalTimeoutConstant = 0]
    ELSE [timeouts EXCEPT !.ReadIntervalTimeout =
                              IF timeout = 0 THEN MAXDWORD ELSE 0,
                          !.ReadTotalTimeoutMultiplier = 0,
                          !.ReadTotalTimeoutConstant = timeout,
                          !.WriteTotalTimeoutMultiplier = 0,
                          !.WriteTotalTimeoutConstant = 0]

\* Timeouts whose non-blocking mode is the blocking one.
NewTimeouts_never_nonblocking(timeouts, timeout) ==
    [timeouts EXCEPT !.ReadIntervalTimeout = 0,
                     !.ReadTotalTimeoutMultiplier = 0,
                     !.ReadTotalTimeoutConstant =
                         IF timeout > 0 THEN timeout ELSE 0,
                     !.WriteTotalTimeoutMultiplier = 0,
                     !.WriteTotalTimeoutConstant = 0]

\* The COMMTIMEOUTS set_timeout hands to SetCommTimeouts, built on the
\* COMMTIMEOUTS GetCommTimeouts returned.
NewTimeouts(timeouts, timeout) ==
    IF timeout < 0
    THEN [timeouts EXCEPT !.ReadIntervalTimeout = 0,
                          !.ReadTotalTimeoutMultiplier = 0,
                          !.ReadTotalTimeoutConstant = 0,
                          !.WriteTotalTimeoutMultiplier = 0,
                          !.WriteTotalTimeoutConstant = 0]
    ELSE IF timeout = 0
    THEN [timeouts EXCEPT !.ReadIntervalTimeout = MAXDWORD,
                          !.ReadTotalTimeoutMultiplier = 0,
                          !.ReadTotalTimeoutConstant = 0,
                          !.WriteTotalTimeoutMultiplier = 0,
                          !.WriteTotalTimeoutConstant = 0]
    ELSE [timeouts EXCEPT !.ReadIntervalTimeout = 0,
                          !.ReadTotalTimeoutMultiplier = 0,
                          !.ReadTotalTimeoutConstant = timeout,
                          !.WriteTotalTimeoutMultiplier = 0,
                          !.WriteTotalTimeoutConstant = 0]

dc_serial_set_timeout(p, timeout, getTimeouts, setTimeouts) ==
    IF getTimeouts # OK
    THEN [status |-> syserror(getTimeouts), port |-> p]
    ELSE IF setTimeouts # OK
    THEN [status |-> syserror(setTimeouts), port |-> p]
    ELSE [status |-> "DC_STATUS_SUCCESS",
          port   |-> [p EXCEPT !.timeouts = NewTimeouts(p.timeouts, timeout)]]

\* A set_timeout call with a timeout drawn from timeoutArgs.
SetTimeoutFrom(timeoutArgs) ==
    /\ device # NULL
    /\ \E timeout \in timeoutArgs, getTimeouts \in {OK} \cup FewErrCodes :
       \E setTimeouts \in IF getTimeouts = OK THEN {OK} \cup FewErrCodes
                          ELSE {OK} :
       \E r \in {dc_serial_set_timeout(port, timeout, getTimeouts,
                                       setTimeouts)} :
            /\ port' = r.port
            /\ last' = [op |-> "set_timeout", status |-> r.status,
                        timeout |-> timeout]
            /\ timeoutSet' = IF r.status = "DC_STATUS_SUCCESS"
                             THEN [set |-> TRUE, timeout |-> timeout]
                             ELSE timeoutSet
    /\ UNCHANGED <<device, handles, out, sessions, opened, registry>>

\* Blocking, non-blocking and a deadline.
SetTimeout == SetTimeoutFrom({-1, 0, 250})

\* The same and a second deadline.
SetTimeoutAny == SetTimeoutFrom({-1, 0, 250, 1000})

dc_serial_set_halfduplex(dev, value) == [dev EXCEPT !.halfduplex = value]

SetHalfduplex ==
    /\ device # NULL
    /\ \E value \in {0, 1} :
            /\ device' = dc_serial_set_halfduplex(device, value)
            /\ last' = [op |-> "set_halfduplex",
                        status |-> "DC_STATUS_SUCCESS", value |-> value]
    /\ UNCHANGED <<port, handles, out, sessions, opened, timeoutSet, registry>>

SetLatency ==
    /\ device # NULL
    /\ \E value \in {0, 16} :
            last' = [op |-> "set_latency", status |-> "DC_STATUS_SUCCESS",
                     value |-> value]
    /\ UNCHANGED <<port, device, handles, out, sessions, opened, timeoutSet,
                   registry>>

(***************************************************************************)
(* dc_serial_read                                                          *)
(***************************************************************************)
\* ReadFile on a serial port: how many of the size bytes asked for it
\* returns, and whether it had to wait, when avail bytes are in the input
\* buffer at the call and arrive more bytes come in while the call waits.
\* The three modes set_timeout selects are the documented ones; under any
\* other COMMTIMEOUTS the call returns at the OS's choice (early = TRUE:
\* without waiting for the bytes to come).
Min(a, b) == IF a < b THEN a ELSE b

ReadFile(timeouts, size, avail, arrive, early) ==
    LET nonblocking == /\ timeouts.ReadIntervalTimeout = MAXDWORD
                       /\ timeouts.ReadTotalTimeoutMultiplier = 0
                       /\ timeouts.ReadTotalTimeoutConstant = 0
    IN
    IF nonblocking \/ size <= avail
    THEN [dwRead |-> Min(size, avail), waited |-> FALSE]
    ELSE IF early
    THEN [dwRead |-> avail, waited |-> TRUE]
    ELSE [dwRead |-> Min(size, avail + arrive), waited |-> TRUE]

\* Whether ReadFile returns at all: with no timeout at all it waits until
\* the bytes asked for have come in.
ReadFileReturns(timeouts, size, avail, arrive, early) ==
    LET blocking == /\ timeouts.ReadIntervalTimeout = 0
                    /\ timeouts.ReadTotalTimeoutMultiplier = 0
                    /\ timeouts.ReadTotalTimeoutConstant = 0
    IN blocking => (~early /\ avail + arrive >= size)

\* A read that reports success whatever the count.
dc_serial_read_never_timeout(size, actualp, rc, dwRead) ==
    LET n == IF rc = OK THEN dwRead ELSE 0
    IN [status |-> IF rc # OK THEN syserror(rc) ELSE "DC_STATUS_SUCCESS",
        actual |-> IF actualp THEN n ELSE 0]

\* The outcome of read for size bytes, with or without a place for the
\* count (actualp), when ReadFile answers rc with dwRead bytes.
dc_serial_read(size, actualp, rc, dwRead) ==
    LET n == IF rc = OK THEN dwRead ELSE 0
        status == IF rc # OK THEN syserror(rc)
                  ELSE IF n # size THEN "DC_STATUS_TIMEOUT"
                  ELSE "DC_STATUS_SUCCESS"
    IN [status |-> status, actual |-> IF actualp THEN n ELSE 0]

\* A read whose size and whose bytes at hand are drawn from the given sets.
ReadFrom(sizes, counts) ==
    /\ device # NULL
    /\ \E size \in sizes, actualp \in BOOLEAN,
          rc \in {OK} \cup FewErrCodes :
       \E avail \in IF rc = OK THEN counts ELSE {0},
          arrive \in IF rc = OK THEN counts ELSE {0},
          early \in IF rc = OK THEN BOOLEAN ELSE {FALSE} :
       /\ ReadFileReturns(port.timeouts, size, avail, arrive, early)
       /\ \E os \in {ReadFile(port.timeouts, size, avail, arrive, early)} :
          \E r \in {dc_serial_read(size, actualp, rc, os.dwRead)} :
            last' = [op |-> "read", status |-> r.status, size |-> size,
                     actualp |-> actualp, actual |-> r.actual, rc |-> rc,
                     avail |-> avail,
                     transferred |-> IF rc = OK THEN os.dwRead ELSE 0,
                     waited |-> os.waited]
    /\ UNCHANGED <<port, device, handles, out, sessions, opened, timeoutSet,
                   registry>>

Read == ReadFrom({1}, {0, 1})

ReadAny == ReadFrom(0..MaxSize, 0..MaxSize)

(***************************************************************************)
(* dc_serial_write                                                         *)
(***************************************************************************)
\* WriteFile on a serial port: how many of the size bytes it transfers when
\* the line takes sent bytes before a write timeout ends the call.  With no
\* write timeout the call waits until every byte is transferred.
WriteFile(timeouts, size, sent) ==
    IF /\ timeouts.WriteTotalTimeoutMultiplier = 0
       /\ timeouts.WriteTotalTimeoutConstant = 0
    THEN size
    ELSE Min(size, sent)

RECURSIVE GCD(_, _)
GCD(a, b) == IF b = 0 THEN a ELSE GCD(b, a % b)

\* (unsigned long) (num / den + 0.5) for num >= 0 and den > 0.
RoundHalfUp(num, den) == (2 * num + den) \div (2 * den)

\* The elapsed time in microseconds:
\* 1000000.0 * (end.QuadPart - begin.QuadPart) / freq.QuadPart + 0.5 .
\* The fraction is reduced first to keep the products small.
Elapsed(ticks, freq) ==
    LET g == GCD(1000000, freq)
    IN RoundHalfUp(ticks * (1000000 \div g), freq \div g)

\* The fudge factor added to the expected duration, in microseconds.
FudgeMicros == 2000

\* The expected duration in microseconds:
\* 1000000.0 * nbits / baudrate * size + 0.5 + 2000 .  With a baud rate of
\* zero the quotient is infinite (or not a number) and its conversion to
\* unsigned long is undefined: the result is whatever value ub is.
Expected(nb, baudrate, size, ub) ==
    IF baudrate = 0 THEN ub
    ELSE RoundHalfUp(1000000 * nb * size, baudrate) + FudgeMicros

\* The values drawn for the result of the undefined conversion: zero and a
\* large one.
UndefinedValues == {0, 2147480000}

\* A turnaround delay rounded down to the millisecond.
Turnaround_rounds_down(elapsed, expected) ==
    IF elapsed < expected
    THEN <<(expected - elapsed) \div 1000>>
    ELSE <<>>

\* The Sleep calls of the turnaround delay, in milliseconds.
Turnaround(elapsed, expected) ==
    IF elapsed < expected
    THEN <<((expected - elapsed) + 999) \div 1000>>
    ELSE <<>>

\* The outcome of write for size bytes on session dev.  t holds the
\* outcomes of the OS calls: qpf, begin and end (the three timer queries),
\* rc and dwWritten (WriteFile), freq and ticks (the timer's frequency and
\* the ticks between the two readings), ub (the undefined value).
dc_serial_write(dev, size, actualp, t) ==
    LET timerErr == IF t.qpf # OK THEN t.qpf ELSE t.begin
        result(status, n, sleeps) ==
            [status |-> status, written |-> n,
             actual |-> IF actualp THEN n ELSE 0, sleeps |-> sleeps]
    IN
    IF dev.halfduplex # 0 /\ timerErr # OK
    THEN result(syserror(timerErr), 0, <<>>)
    ELSE IF t.rc # OK
    THEN result(syserror(t.rc), 0, <<>>)
    ELSE IF dev.halfduplex # 0 /\ t.end # OK
    THEN result(syserror(t.end), t.dwWritten, <<>>)
    ELSE
    LET sleeps == IF dev.halfduplex # 0
                  THEN Turnaround(Elapsed(t.ticks, t.freq),
                                  Expected(dev.nbits, dev.baudrate, size, t.ub))
                  ELSE <<>>
    IN result(IF t.dwWritten # size THEN "DC_STATUS_TIMEOUT"
              ELSE "DC_STATUS_SUCCESS", t.dwWritten, sleeps)

\* The frequencies of the performance counter, in ticks per second.
Freqs == {1000000, 10000000}

\* The ticks a write takes.
Ticks == {0, 18330, 28330, 28334, 28336, 50000}

\* A write whose size, timer frequency and duration are drawn from the
\* given sets.  The outcome of a call is drawn only when the call is made.
WriteFrom(sizes, freqs, ticks) ==
    /\ device # NULL
    /\ \E size \in sizes, actualp \in BOOLEAN,
          timer \in IF device.halfduplex # 0
                    THEN {<<OK, OK>>, <<"ERROR_GEN_FAILURE", OK>>,
                          <<OK, "ERROR_INVALID_PARAMETER">>}
                    ELSE {<<OK, OK>>} :
       \E rc \in IF timer = <<OK, OK>> THEN {OK} \cup FewErrCodes ELSE {OK} :
       \E sent \in IF timer = <<OK, OK>> /\ rc = OK THEN 0..size ELSE {0},
          end \in IF timer = <<OK, OK>> /\ rc = OK /\ device.halfduplex # 0
                  THEN {OK} \cup FewErrCodes ELSE {OK} :
       \E freq \in IF device.halfduplex # 0 /\ timer = <<OK, OK>> /\ rc = OK
                      /\ end = OK
                   THEN freqs ELSE {1000000} :
       \E tk \in IF device.halfduplex # 0 /\ timer = <<OK, OK>> /\ rc = OK
                    /\ end = OK
                 THEN ticks ELSE {0},
          ub \in IF device.halfduplex # 0 /\ timer = <<OK, OK>> /\ rc = OK
                    /\ end = OK /\ device.baudrate = 0
                 THEN UndefinedValues ELSE {0} :
       \E t \in {[qpf |-> timer[1], begin |-> timer[2], rc |-> rc,
                  dwWritten |-> WriteFile(port.timeouts, size, sent),
                  end |-> end, freq |-> freq, ticks |-> tk, ub |-> ub]} :
       \E r \in {dc_serial_write(device, size, actualp, t)} :
            last' = [op |-> "write", status |-> r.status, size |-> size,
                     actualp |-> actualp, actual |-> r.actual,
                     rc |-> IF timer = <<OK, OK>> THEN rc ELSE "NOT_CALLED",
                     transferred |-> r.written,
                     timed |-> (device.halfduplex # 0 /\ timer = <<OK, OK>>
                                /\ rc = OK /\ end = OK),
                     end |-> end, freq |-> freq, ticks |-> tk,
                     sleeps |-> r.sleeps]
    /\ UNCHANGED <<port, device, handles, out, sessions, opened, timeoutSet,
                   registry>>

Write == WriteFrom({1}, {1000000}, {0, 50000})

WriteAny == WriteFrom(0..MaxSize, Freqs, Ticks)

(***************************************************************************)
(* dc_serial_purge, dc_serial_flush, dc_serial_set_break,                  *)
(* dc_serial_set_dtr, dc_serial_set_rts, dc_serial_get_available,          *)
(* dc_serial_get_lines, dc_serial_sleep                                    *)
(***************************************************************************)
\* A handler that makes one OS call and hands its outcome on.
OneCall(rc) == IF rc # OK THEN syserror(rc) ELSE "DC_STATUS_SUCCESS"

\* A call that touches neither the session nor the settings of the port.
Observe(record) ==
    /\ device # NULL
    /\ last' = record
    /\ UNCHANGED <<port, device, handles, out, sessions, opened, timeoutSet,
                   registry>>

Directions == {"DC_DIRECTION_INPUT", "DC_DIRECTION_OUTPUT", "DC_DIRECTION_ALL"}

dc_serial_purge(direction, rc) ==
    IF direction \notin Directions THEN "DC_STATUS_INVALIDARGS"
    ELSE OneCall(rc)

Purge ==
    \E direction \in Directions \cup {BadEnum}, rc \in {OK} \cup FewErrCodes :
        Observe([op |-> "purge", status |-> dc_serial_purge(direction, rc),
                 direction |-> direction])

Flush ==
    \E rc \in {OK} \cup FewErrCodes :
        Observe([op |-> "flush", status |-> OneCall(rc)])

SetBreak ==
    \E level \in {0, 1}, rc \in {OK} \cup FewErrCodes :
        Observe([op |-> "set_break", status |-> OneCall(rc),
                 call |-> IF level # 0 THEN "SetCommBreak"
                          ELSE "ClearCommBreak"])

SetDtr ==
    \E level \in {0, 1}, rc \in {OK} \cup FewErrCodes :
        Observe([op |-> "set_dtr", status |-> OneCall(rc),
                 call |-> IF level # 0 THEN "SETDTR" ELSE "CLRDTR"])

SetRts ==
    \E level \in {0, 1}, rc \in {OK} \cup FewErrCodes :
        Observe([op |-> "set_rts", status |-> OneCall(rc),
                 call |-> IF level # 0 THEN "SETRTS" ELSE "CLRRTS"])

GetAvailable ==
    \E cbInQue \in {0, 1}, valuep \in BOOLEAN,
       rc \in {OK} \cup FewErrCodes :
        Observe([op |-> "get_available", status |-> OneCall(rc),
                 value |-> IF rc = OK /\ valuep THEN cbInQue ELSE 0])

\* The line flags get_lines reports for the modem status bits of the OS.
LinesOf(stats) ==
    (IF "MS_RLSD_ON" \in stats THEN {"DC_LINE_DCD"} ELSE {}) \cup
    (IF "MS_CTS_ON" \in stats THEN {"DC_LINE_CTS"} ELSE {}) \cup
    (IF "MS_DSR_ON" \in stats THEN {"DC_LINE_DSR"} ELSE {}) \cup
    (IF "MS_RING_ON" \in stats THEN {"DC_LINE_RNG"} ELSE {})

GetLines ==
    \E stats \in {{}, {"MS_CTS_ON"}, {"MS_RLSD_ON", "MS_DSR_ON"},
                  {"MS_RLSD_ON", "MS_CTS_ON", "MS_DSR_ON", "MS_RING_ON"}},
       rc \in {OK} \cup FewErrCodes :
        Observe([op |-> "get_lines", status |-> OneCall(rc),
                 value |-> IF rc = OK THEN LinesOf(stats) ELSE {}])

Sleep ==
    \E timeout \in {0, 10} :
        Observe([op |-> "sleep", status |-> "DC_STATUS_SUCCESS",
                 sleeps |-> <<timeout>>])

(***************************************************************************)
(* dc_serial_enumerate                                                     *)
(***************************************************************************)
\* sizeof (name) and sizeof (data): the two buffers of the loop.
BufferSize == 512

\* The values a registry key may hold: its type, the length of its name
\* (without the terminator), the length of its data in bytes, and whether
\* the OS can read it at all.
Entries ==
    [type : {"REG_SZ", "REG_BINARY"}, name_len : {8}, data_len : {4, 512, 600},
     readable : {TRUE}]
    \cup {[type |-> "REG_SZ", name_len |-> 8, data_len |-> 511,
           readable |-> TRUE],
          [type |-> "REG_SZ", name_len |-> 512, data_len |-> 4,
           readable |-> TRUE],
          [type |-> "REG_SZ", name_len |-> 8, data_len |-> 4,
           readable |-> FALSE]}

RECURSIVE SeqsUpTo(_, _)
SeqsUpTo(S, n) ==
    IF n = 0 THEN {<<>>}
    ELSE LET shorter == SeqsUpTo(S, n - 1)
         IN shorter \cup {Append(q, e) : q \in {x \in shorter : Len(x) = n - 1},
                                         e \in S}

\* The registry as an enumeration finds it: the key is absent, cannot be
\* opened, cannot be queried, or holds some values.
NoRegistry == [key |-> "ERROR_FILE_NOT_FOUND", info |-> OK, entries |-> <<>>]

Registries ==
    {NoRegistry,
     [key |-> "ERROR_ACCESS_DENIED", info |-> OK, entries |-> <<>>]}
    \cup [key : {OK}, info : {"ERROR_GEN_FAILURE"}, entries : {<<>>}]
    \cup [key : {OK}, info : {OK}, entries : SeqsUpTo(Entries, MaxEntries)]

\* RegEnumValueA into buffers of BufferSize bytes: the name needs room for
\* its terminator, the data is copied as it is.
RegEnumValueA(e) ==
    IF ~e.readable THEN "ERROR_GEN_FAILURE"
    ELSE IF e.name_len + 1 > BufferSize \/ e.data_len > BufferSize
    THEN "ERROR_MORE_DATA"
    ELSE OK

\* A loop that hands every value to the callback, whatever its type.
RECURSIVE EnumerateLoop_any_type(_, _, _)
EnumerateLoop_any_type(entries, i, callbacks) ==
    IF ~(i <= Len(entries))
    THEN [status |-> "DC_STATUS_SUCCESS", callbacks |-> callbacks]
    ELSE IF RegEnumValueA(entries[i]) # OK
    THEN [status |-> "DC_STATUS_IO", callbacks |-> callbacks]
    ELSE IF entries[i].data_len >= BufferSize
    THEN [status |-> "DC_STATUS_NOMEMORY", callbacks |-> callbacks]
    ELSE EnumerateLoop_any_type(entries, i + 1, Append(callbacks, i))

\* A loop that skips a value it cannot read and goes on.
RECURSIVE EnumerateLoop_skips_unreadable(_, _, _)
EnumerateLoop_skips_unreadable(entries, i, callbacks) ==
    IF ~(i <= Len(entries))
    THEN [status |-> "DC_STATUS_SUCCESS", callbacks |-> callbacks]
    ELSE IF RegEnumValueA(entries[i]) # OK
    THEN EnumerateLoop_skips_unreadable(entries, i + 1, callbacks)
    ELSE IF entries[i].type # "REG_SZ"
    THEN EnumerateLoop_skips_unreadable(entries, i + 1, callbacks)
    ELSE IF entries[i].data_len >= BufferSize
    THEN [status |-> "DC_STATUS_NOMEMORY", callbacks |-> callbacks]
    ELSE EnumerateLoop_skips_unreadable(entries, i + 1, Append(callbacks, i))

\* The loop over the values from index i on, with the callbacks made so far
\* (the indices of the values handed to the callback).
RECURSIVE EnumerateLoop(_, _, _)
EnumerateLoop(entries, i, callbacks) ==
    IF ~(i <= Len(entries))
    THEN [status |-> "DC_STATUS_SUCCESS", callbacks |-> callbacks]
    ELSE IF RegEnumValueA(entries[i]) # OK
    THEN [status |-> "DC_STATUS_IO", callbacks |-> callbacks]
    ELSE IF entries[i].type # "REG_SZ"
    THEN EnumerateLoop(entries, i + 1, callbacks)
    ELSE IF entries[i].data_len >= BufferSize
    THEN [status |-> "DC_STATUS_NOMEMORY", callbacks |-> callbacks]
    ELSE EnumerateLoop(entries, i + 1, Append(callbacks, i))

dc_serial_enumerate(reg) ==
    IF reg.key # OK
    THEN [status |-> IF reg.key = "ERROR_FILE_NOT_FOUND"
                     THEN "DC_STATUS_SUCCESS" ELSE "DC_STATUS_IO",
          callbacks |-> <<>>]
    ELSE IF reg.info # OK
    THEN [status |-> "DC_STATUS_IO", callbacks |-> <<>>]
    ELSE EnumerateLoop(reg.entries, 1, <<>>)

Enumerate ==
    /\ \E r \in {dc_serial_enumerate(registry)} :
            last' = [op |-> "enumerate", status |-> r.status,
                     callbacks |-> r.callbacks]
    /\ UNCHANGED <<port, device, handles, out, sessions, opened, timeoutSet,
                   registry>>

Init ==
    /\ port \in InitialPorts
    /\ device = NULL
    /\ handles = 0
    /\ out = "NULL"
    /\ sessions = 0
    /\ opened = NULL
    /\ timeoutSet = NoTimeoutSet
    /\ last = NoCall
    /\ registry = NoRegistry

Next ==
    \/ Open \/ Close \/ Configure
    \/ SetTimeout \/ SetHalfduplex \/ SetLatency
    \/ Read \/ Write
    \/ Purge \/ Flush \/ SetBreak \/ SetDtr \/ SetRts
    \/ GetAvailable \/ GetLines \/ Sleep

Spec == Init /\ [][Next]_vars

(***************************************************************************)
(* The configure handler alone, on a session that was just opened, with    *)
(* every combination of its arguments.                                     *)
(***************************************************************************)
InitOpened ==
    /\ port \in {p \in InitialPorts : p.dcb.fAbortOnError}
    /\ device = [dcb |-> port.dcb, timeouts |-> port.timeouts,
                 halfduplex |-> 0, baudrate |-> 0, nbits |-> 0]
    /\ handles = 1
    /\ out = "device"
    /\ sessions = 1
    /\ opened = port
    /\ timeoutSet = NoTimeoutSet
    /\ last = [op |-> "open", status |-> "DC_STATUS_SUCCESS", calls |-> <<>>]
    /\ registry = NoRegistry

NextConfigure == ConfigureAny

SpecConfigure == InitOpened /\ [][NextConfigure]_vars

(***************************************************************************)
(* Reading and writing on an open session, with every size, timer          *)
(* frequency and duration, between changes of the timeouts, of the duplex  *)
(* mode and of the configuration.                                          *)
(***************************************************************************)
InitTransfer ==
    /\ port \in {p \in InitialPorts : p.timeouts.WriteTotalTimeoutConstant # 0}
    /\ device = [dcb |-> port.dcb, timeouts |-> port.timeouts,
                 halfduplex |-> 0, baudrate |-> 0, nbits |-> 0]
    /\ handles = 1
    /\ out = "device"
    /\ sessions = 1
    /\ opened = port
    /\ timeoutSet = NoTimeoutSet
    /\ last = [op |-> "open", status |-> "DC_STATUS_SUCCESS", calls |-> <<>>]
    /\ registry = NoRegistry

NextTransfer ==
    \/ ConfigureTransfer \/ SetTimeoutAny \/ SetHalfduplex
    \/ ReadAny \/ WriteAny

SpecTransfer == InitTransfer /\ [][NextTransfer]_vars

(***************************************************************************)
(* The enumerator alone, over every registry of up to MaxEntries values.   *)
(***************************************************************************)
InitEnumerate ==
    /\ port \in {p \in InitialPorts : p.dcb.fAbortOnError}
    /\ device = NULL
    /\ handles = 0
    /\ out = "NULL"
    /\ sessions = 0
    /\ opened = NULL
    /\ timeoutSet = NoTimeoutSet
    /\ last = NoCall
    /\ registry \in Registries

NextEnumerate == Enumerate

SpecEnumerate == InitEnumerate /\ [][NextEnumerate]_vars

(***************************************************************************)
(* The claims.                                                             *)
(***************************************************************************)
Indices(calls, fn) == {i \in 1..Len(calls) : calls[i].fn = fn}

RestoreFailed(calls) ==
    \E i \in Indices(calls, "SetCommState") \cup Indices(calls, "SetCommTimeouts") :
        calls[i].rc # OK

\* C1: every close releases the OS handle exactly once, after the restore
\* attempt, whether the restore succeeded or failed; and when the restore
\* fails the status of close is not success.
C1_CloseReleasesAfterRestore ==
    last.op = "close" =>
        /\ Cardinality(Indices(last.calls, "CloseHandle")) = 1
        /\ last.calls[Len(last.calls)].fn = "CloseHandle"
        /\ last.calls[1].fn = "SetCommState"
        /\ RestoreFailed(last.calls) => last.status # "DC_STATUS_SUCCESS"

\* A close whose restore failed and that released the handle all the same.
C1_Witness ==
    /\ last.op = "close"
    /\ last.calls[1].rc # OK
    /\ last.calls[Len(last.calls)].fn = "CloseHandle"
    /\ last.status # "DC_STATUS_SUCCESS"
    /\ handles = 0

\* C2: the saved settings are those the port had when the session was
\* opened: open takes them without changing the port, no later call changes
\* them, and what close writes back to the port is exactly them.
C2_SnapshotIsTheOpenedPort ==
    /\ device # NULL =>
          /\ device.dcb = opened.dcb
          /\ device.timeouts = opened.timeouts
    /\ (last.op = "open" /\ last.status = "DC_STATUS_SUCCESS") =>
          /\ port = opened
          /\ \A i \in 1..Len(last.calls) :
                last.calls[i].fn \notin {"SetCommState", "SetCommTimeouts"}
    /\ last.op = "close" =>
          /\ \A i \in Indices(last.calls, "SetCommState") :
                last.calls[i].val = opened.dcb
          /\ \A i \in Indices(last.calls, "SetCommTimeouts") :
                last.calls[i].val = opened.timeouts
          /\ ~RestoreFailed(last.calls) => port = opened

\* The close of a second session, opened on a port the first session had
\* left with settings of its own, puts those settings back.
C2_Witness ==
    /\ last.op = "close"
    /\ ~RestoreFailed(last.calls)
    /\ Len(last.calls) = 3
    /\ sessions = 2
    /\ opened \notin InitialPorts
    /\ port = opened

\* Twice the number of stop bits a value of dc_stopbits_t denotes.
TwiceStopBits(stopbits) ==
    CASE stopbits = "DC_STOPBITS_ONE"          -> 2
      [] stopbits = "DC_STOPBITS_ONEPOINTFIVE" -> 3
      [] stopbits = "DC_STOPBITS_TWO"          -> 4

\* C3: after a configure that succeeds, the bit-time count of the session is
\* 1 + data_bits + the number of stop bits + (1 if parity is not none)
\* (stated on twice the count, for the one and a half stop bits).
C3_BitTimeCount ==
    (last.op = "configure" /\ last.status = "DC_STATUS_SUCCESS") =>
        2 * device.nbits =
            2 * (1 + last.applied.databits
                   + (IF last.applied.parity # "DC_PARITY_NONE" THEN 1 ELSE 0))
            + TwiceStopBits(last.applied.stopbits)

\* C4 as claimed: a configure with data_bits outside 5..8 returns
\* invalid-arguments, whatever the query of the current settings answers.
C4_AlwaysInvalidArgs ==
    (last.op = "configure" /\ ~(last.databits \in 5..8)) =>
        last.status = "DC_STATUS_INVALIDARGS"

\* C4 as amended: a configure with data_bits outside 5..8 returns
\* invalid-arguments when the query of the current settings succeeds and the
\* status of the query's error when it fails, and in both cases leaves the
\* port's settings, the recorded baud rate and the recorded bit-time count
\* as they were.
C4_RefusedDataBits ==
    [][ (last'.op = "configure" /\ ~(last'.databits \in 5..8)) =>
            /\ last'.status = IF last'.getState = OK
                              THEN "DC_STATUS_INVALIDARGS"
                              ELSE syserror(last'.getState)
            /\ port' = port
            /\ device' = device ]_vars

\* A refused configure on a session that an earlier configure had set up.
C4_Witness ==
    /\ last.op = "configure"
    /\ last.databits = 9
    /\ last.getState = OK
    /\ last.status = "DC_STATUS_INVALIDARGS"
    /\ device.baudrate = 9600
    /\ device.nbits # 0
    /\ port.dcb.BaudRate = 9600

\* The claim of C5 for a transfer: all bytes give success and the full
\* count, fewer bytes give timeout and the count transferred.
TransferReported ==
    /\ last.transferred = last.size =>
          /\ last.status = "DC_STATUS_SUCCESS"
          /\ last.actualp => last.actual = last.size
    /\ last.transferred < last.size =>
          /\ last.status = "DC_STATUS_TIMEOUT"
          /\ last.actualp => last.actual = last.transferred

\* C5 as claimed: a read or a write whose OS call completes without an OS
\* error reports success and actual == size when every byte was transferred,
\* and timeout and the count transferred when fewer were.
C5_TransferStatus ==
    (last.op \in {"read", "write"} /\ last.rc = OK) => TransferReported

\* C5 as amended: the same, except for a write in half-duplex mode whose
\* timer query after the OS write fails: that write returns the status of
\* the timer's error, with actual the count transferred.
C5_TransferStatusUnlessTimerFails ==
    (last.op \in {"read", "write"} /\ last.rc = OK) =>
        IF last.op = "write" /\ device.halfduplex # 0 /\ last.end # OK
        THEN /\ last.status = syserror(last.end)
             /\ last.actualp => last.actual = last.transferred
        ELSE TransferReported

\* A write that transferred one byte of two and reported it with timeout.
C5_Witness ==
    /\ last.op = "write"
    /\ last.rc = OK
    /\ last.size = 2
    /\ last.transferred = 1
    /\ last.actualp
    /\ last.actual = 1
    /\ last.status = "DC_STATUS_TIMEOUT"

\* A read of size > 0 bytes with no byte at hand, on a session whose last
\* successful set_timeout asked for 0, answered by the OS without an error.
NonBlockingEmptyRead ==
    /\ last.op = "read"
    /\ last.rc = OK
    /\ last.size > 0
    /\ last.avail = 0
    /\ timeoutSet.set
    /\ timeoutSet.timeout = 0

\* C6 as claimed: such a read returns at once with actual == 0 and success.
C6_EmptyReadSucceeds ==
    NonBlockingEmptyRead =>
        /\ ~last.waited
        /\ last.actualp => last.actual = 0
        /\ last.status = "DC_STATUS_SUCCESS"

\* C6 as amended: such a read returns at once with actual == 0 and the
\* status timeout (no byte of the size asked for was read), never an I/O
\* error.
C6_EmptyReadTimesOut ==
    NonBlockingEmptyRead =>
        /\ ~last.waited
        /\ last.transferred = 0
        /\ last.actualp => last.actual = 0
        /\ last.status = "DC_STATUS_TIMEOUT"

C6_Witness ==
    /\ NonBlockingEmptyRead
    /\ last.size = 2
    /\ last.actualp
    /\ last.actual = 0
    /\ last.status = "DC_STATUS_TIMEOUT"

\* The times of a half-duplex write, all multiplied by baud rate * k, where
\* k is the timer's ticks per microsecond, so that they are integers:
\* the expected duration T*N/B + margin, the measured time E, the time
\* slept and one microsecond.
TicksPerMicro == last.freq \div 1000000
ExpectedScaled ==
    1000000 * device.nbits * last.size * TicksPerMicro
    + FudgeMicros * device.baudrate * TicksPerMicro
ElapsedScaled == last.ticks * device.baudrate
MicroScaled == device.baudrate * TicksPerMicro
SleptScaled ==
    IF last.sleeps = <<>> THEN 0 ELSE 1000 * last.sleeps[1] * MicroScaled

\* A half-duplex write whose OS write succeeded and whose time was measured,
\* at a baud rate above zero.
TimedWrite ==
    /\ last.op = "write"
    /\ device.halfduplex # 0
    /\ last.timed
    /\ device.baudrate > 0

\* C7 as claimed: a half-duplex write that took less than the expected
\* duration sleeps at least the rest of it; one that took no less does not
\* sleep; a write with half-duplex off never sleeps.
C7_SleepsTheRest ==
    /\ TimedWrite =>
          IF ElapsedScaled < ExpectedScaled
          THEN /\ Len(last.sleeps) = 1
               /\ SleptScaled >= ExpectedScaled - ElapsedScaled
          ELSE last.sleeps = <<>>
    /\ (last.op = "write" /\ device.halfduplex = 0) => last.sleeps = <<>>

\* C7 as amended: both times are rounded to the microsecond before they are
\* compared, so the sleep is at least the rest of the expected duration less
\* one microsecond (and less than a millisecond and a microsecond more), and
\* a write that ends within a microsecond of the expected duration may not
\* sleep at all; a write that took no less than the expected duration does
\* not sleep; a write with half-duplex off, or whose OS write or timer query
\* failed, never sleeps.
C7_SleepsTheRestLessOneMicro ==
    /\ TimedWrite =>
          /\ Len(last.sleeps) <= 1
          /\ last.sleeps = <<>> =>
                ExpectedScaled - ElapsedScaled < MicroScaled
          /\ last.sleeps # <<>> =>
                /\ SleptScaled >= ExpectedScaled - ElapsedScaled - MicroScaled
                /\ SleptScaled < ExpectedScaled - ElapsedScaled
                                   + 1001 * MicroScaled
          /\ ElapsedScaled >= ExpectedScaled => last.sleeps = <<>>
    /\ (last.op = "write" /\ (device.halfduplex = 0 \/ ~last.timed)) =>
          last.sleeps = <<>>

\* A write that slept one millisecond when a third of a microsecond more
\* than that was left of the expected duration.
C7_Witness ==
    /\ TimedWrite
    /\ last.sleeps = <<1>>
    /\ SleptScaled < ExpectedScaled - ElapsedScaled
    /\ SleptScaled >= ExpectedScaled - ElapsedScaled - MicroScaled

\* The timeouts of a mode: blocking (timeout < 0), non-blocking (0), or a
\* total read deadline of timeout.
ModeTimeouts(timeout) ==
    [ReadIntervalTimeout |-> IF timeout = 0 THEN MAXDWORD ELSE 0,
     ReadTotalTimeoutMultiplier |-> 0,
     ReadTotalTimeoutConstant |-> IF timeout > 0 THEN timeout ELSE 0,
     WriteTotalTimeoutMultiplier |-> 0,
     WriteTotalTimeoutConstant |-> 0]

\* C8: after a set_timeout that succeeds the timeouts of the port are those
\* of the mode its argument selects, whatever calls came before: the same as
\* after that call alone on a port just opened.
C8_TimeoutModeFromArgumentAlone ==
    (last.op = "set_timeout" /\ last.status = "DC_STATUS_SUCCESS") =>
        /\ port.timeouts = ModeTimeouts(last.timeout)
        /\ \A fresh \in InitialPorts :
              port.timeouts =
                  dc_serial_set_timeout(fresh, last.timeout, OK, OK).port.timeouts

\* A blocking mode set on a port that an earlier session had left with the
\* deadline of its set_timeout(250).
C8_Witness ==
    /\ last.op = "set_timeout"
    /\ last.status = "DC_STATUS_SUCCESS"
    /\ last.timeout = -1
    /\ opened.timeouts.ReadTotalTimeoutConstant = 250
    /\ port.timeouts.ReadTotalTimeoutConstant = 0

\* How often index i is among the callbacks.
Times(callbacks, i) ==
    Cardinality({j \in 1..Len(callbacks) : callbacks[j] = i})

\* C9: an enumeration of an absent key returns success without a callback;
\* an enumeration of an existing key that returns success made one callback
\* for every string value and none for a value of another type.
C9_CallbackPerString ==
    last.op = "enumerate" =>
        /\ registry.key = "ERROR_FILE_NOT_FOUND" =>
              /\ last.status = "DC_STATUS_SUCCESS"
              /\ last.callbacks = <<>>
        /\ (registry.key = OK /\ last.status = "DC_STATUS_SUCCESS") =>
              \A i \in 1..Len(registry.entries) :
                  Times(last.callbacks, i) =
                      IF registry.entries[i].type = "REG_SZ" THEN 1 ELSE 0

\* Three string values and one of another type: three callbacks.
C9_Witness ==
    /\ last.op = "enumerate"
    /\ last.status = "DC_STATUS_SUCCESS"
    /\ Len(registry.entries) = 4
    /\ Cardinality({i \in 1..4 : registry.entries[i].type = "REG_SZ"}) = 3
    /\ Len(last.callbacks) = 3

\* A value the OS cannot hand over: unreadable, or its name or its data
\* longer than the buffer.
Unreadable(e) ==
    ~e.readable \/ e.name_len >= BufferSize \/ e.data_len > BufferSize

\* A value whose data reaches the bound of the buffer.
OverLong(e) == e.data_len >= BufferSize

\* The first index at which fails holds, or 0.
FirstIndex(entries, fails(_)) ==
    IF \E i \in 1..Len(entries) : fails(entries[i])
    THEN CHOOSE i \in 1..Len(entries) :
            /\ fails(entries[i])
            /\ \A j \in 1..(i - 1) : ~fails(entries[j])
    ELSE 0

\* An enumeration that fails at the first value for which fails holds (or at
\* the key) returns another status than success, and made no callback for
\* that value nor for one after it.
AbortsAt(fails(_)) ==
    /\ (registry.key \notin {OK, "ERROR_FILE_NOT_FOUND"} \/ registry.info # OK) =>
          /\ last.status # "DC_STATUS_SUCCESS"
          /\ last.callbacks = <<>>
    /\ FirstIndex(registry.entries, fails) # 0 =>
          /\ last.status # "DC_STATUS_SUCCESS"
          /\ \A j \in 1..Len(last.callbacks) :
                last.callbacks[j] < FirstIndex(registry.entries, fails)

FailsAsClaimed(e) == Unreadable(e) \/ OverLong(e)

FailsAsAmended(e) == Unreadable(e) \/ (e.type = "REG_SZ" /\ OverLong(e))

\* C10 as claimed: a key that cannot be opened, a value that cannot be read
\* and a value that reaches the bound of the buffer, whatever its type, each
\* abort the enumeration.
C10_AbortsOnAnyOverLong ==
    last.op = "enumerate" => AbortsAt(FailsAsClaimed)

\* C10 as amended: a key that cannot be opened, a value that cannot be read
\* (its name or its data longer than the buffer among the reasons, whatever
\* its type) and a string value whose data reaches the bound of the buffer
\* each abort the enumeration; a value of another type whose data fills the
\* buffer exactly is skipped like any value of its type.
C10_AbortsOnOverLongString ==
    last.op = "enumerate" => AbortsAt(FailsAsAmended)

\* An enumeration that made a callback, then met a string value that fills
\* the buffer and stopped before the string value after it.
C10_Witness ==
    /\ last.op = "enumerate"
    /\ last.status = "DC_STATUS_NOMEMORY"
    /\ Len(registry.entries) = 3
    /\ registry.entries[2].data_len = BufferSize
    /\ registry.entries[3].type = "REG_SZ"
    /\ registry.entries[3].data_len < BufferSize
    /\ last.callbacks = <<1>>

\* C11: every close attempts both restores, that of the configuration and
\* that of the timeouts: the second is attempted also when the first fails.
C11_BothRestoresAttempted ==
    last.op = "close" =>
        /\ Indices(last.calls, "SetCommState") # {}
        /\ Indices(last.calls, "SetCommTimeouts") # {}

\* The native error of the restore step of a close that made calls, or OK:
\* the error of the one restore call that failed.
RestoreError(calls) ==
    IF RestoreFailed(calls)
    THEN calls[CHOOSE i \in Indices(calls, "SetCommState")
                            \cup Indices(calls, "SetCommTimeouts") :
                    calls[i].rc # OK].rc
    ELSE OK

\* The native error of the release step of a close that made calls, or OK.
ReleaseError(calls) == calls[Len(calls)].rc

\* C12: the status of close is the first error it met: that of the restore
\* when the restore fails, whether or not the release fails too; that of
\* the release when only the release fails; success when neither fails.
C12_FirstErrorOfClose ==
    last.op = "close" =>
        last.status =
            IF RestoreError(last.calls) # OK
            THEN syserror(RestoreError(last.calls))
            ELSE IF ReleaseError(last.calls) # OK
            THEN syserror(ReleaseError(last.calls))
            ELSE "DC_STATUS_SUCCESS"

\* A close whose restore and release both failed, with errors of different
\* statuses, and that returned the status of the restore's.
C12_Witness ==
    /\ last.op = "close"
    /\ RestoreError(last.calls) = "ERROR_ACCESS_DENIED"
    /\ ReleaseError(last.calls) = "ERROR_INVALID_PARAMETER"
    /\ last.status = "DC_STATUS_NOACCESS"

\* The queries of the port's settings that open made.
Queries(calls) ==
    Indices(calls, "GetCommState") \cup Indices(calls, "GetCommTimeouts")

\* An open that obtained an OS handle and whose query of the port's
\* configuration or timeouts failed.
QueryFailed ==
    /\ last.op = "open"
    /\ \E i \in Indices(last.calls, "CreateFileA") : last.calls[i].rc = OK
    /\ \E i \in Queries(last.calls) : last.calls[i].rc # OK

\* The native error of the query that failed.
QueryError ==
    last.calls[CHOOSE i \in Queries(last.calls) : last.calls[i].rc # OK].rc

\* C13 as claimed: an open that obtained a handle and whose query of the
\* port failed returns device-not-found or invalid-arguments, whatever the
\* native error of the query.
C13_QueryFailureIsNoDevice ==
    QueryFailed =>
        last.status \in {"DC_STATUS_NODEVICE", "DC_STATUS_INVALIDARGS"}

\* C13 as amended: such an open returns the status the native error of the
\* failed query maps to: invalid-arguments for an invalid parameter,
\* no-memory for out of memory, device-not-found for file not found,
\* no-access for access denied, and I/O error for every other code; never
\* success.
C13_QueryFailureIsMapped ==
    QueryFailed =>
        /\ last.status =
              CASE QueryError = "ERROR_INVALID_PARAMETER" -> "DC_STATUS_INVALIDARGS"
                [] QueryError = "ERROR_OUTOFMEMORY"       -> "DC_STATUS_NOMEMORY"
                [] QueryError = "ERROR_FILE_NOT_FOUND"    -> "DC_STATUS_NODEVICE"
                [] QueryError = "ERROR_ACCESS_DENIED"     -> "DC_STATUS_NOACCESS"
                [] OTHER                                  -> "DC_STATUS_IO"
        /\ last.status # "DC_STATUS_SUCCESS"

\* An open whose query of the timeouts failed with a code outside the
\* table, after the query of the configuration succeeded.
C13_Witness ==
    /\ QueryFailed
    /\ Indices(last.calls, "GetCommTimeouts") # {}
    /\ QueryError = "ERROR_GEN_FAILURE"
    /\ last.status = "DC_STATUS_IO"

\* The calls of an open leave nothing behind: a handle that was obtained was
\* closed once, and a session that was allocated was deallocated once, last.
NothingLeft(calls) ==
    /\ (\E i \in Indices(calls, "CreateFileA") : calls[i].rc = OK) =>
          /\ Cardinality(Indices(calls, "CloseHandle")) = 1
          /\ \A i \in Indices(calls, "CloseHandle"),
                j \in Indices(calls, "CreateFileA") : j < i
    /\ (\A i \in Indices(calls, "CreateFileA") : calls[i].rc # OK) =>
          Indices(calls, "CloseHandle") = {}
    /\ (\E i \in Indices(calls, "dc_iostream_allocate") : calls[i].rc = OK) =>
          /\ Cardinality(Indices(calls, "dc_iostream_deallocate")) = 1
          /\ calls[Len(calls)].fn = "dc_iostream_deallocate"

\* C14: an open that returns another status than success leaves no resource
\* behind (the handle it obtained is closed, the session it allocated is
\* deallocated, the caller's out is not written); a handle is held after an
\* open only when it returned success, and then out is written.
C14_FailedOpenLeavesNothing ==
    [][ last'.op = "open" =>
            IF last'.status # "DC_STATUS_SUCCESS"
            THEN /\ handles' = 0
                 /\ device' = NULL
                 /\ out' = out
                 /\ NothingLeft(last'.calls)
            ELSE /\ handles' = 1
                 /\ device' # NULL
                 /\ out' = "device"
                 /\ Indices(last'.calls, "CloseHandle") = {}
                 /\ Indices(last'.calls, "dc_iostream_deallocate") = {} ]_vars

\* A first open that obtained a handle, failed at the query of the port and
\* left the caller's out as it was.
C14_Witness ==
    /\ QueryFailed
    /\ last.status # "DC_STATUS_SUCCESS"
    /\ Indices(last.calls, "CloseHandle") # {}
    /\ handles = 0
    /\ device = NULL
    /\ out = "NULL"

\* C15: whenever a write computes the expected duration of a half-duplex
\* write (the flag is set, the OS write and the timer queries succeeded),
\* the recorded baud rate is above zero: the division is never by zero.
C15_BaudRatePositive ==
    (last.op = "write" /\ device.halfduplex # 0 /\ last.timed) =>
        device.baudrate > 0

\* C16: a configure that returns another status than success, for whatever
\* reason, leaves the recorded baud rate and bit-time count and the port's
\* settings as they were; the recorded values change only in a configure
\* that returns success, and then to those of its arguments.
C16_FailedConfigureChangesNothing ==
    [][ /\ (last'.op = "configure" /\ last'.status # "DC_STATUS_SUCCESS") =>
              /\ device'.baudrate = device.baudrate
              /\ device'.nbits = device.nbits
              /\ device' = device
              /\ port' = port
        /\ (device'.baudrate # device.baudrate \/ device'.nbits # device.nbits) =>
              /\ last'.op = "configure"
              /\ last'.status = "DC_STATUS_SUCCESS"
              /\ device'.baudrate = last'.applied.baudrate
              /\ port'.dcb.BaudRate = last'.applied.baudrate
              /\ port'.dcb.ByteSize = last'.applied.databits ]_vars

\* A configure for five data bits that the OS refused, on a session
\* configured for eight: the session and the port still have eight.
C16_Witness ==
    /\ last.op = "configure"
    /\ last.getState = OK
    /\ last.databits = 5
    /\ last.status = "DC_STATUS_IO"
    /\ device.baudrate = 9600
    /\ device.nbits = 9
    /\ port.dcb.ByteSize = 8
=============================================================================
